---- MODULE Spec2Model ----
(***************************************************************************)
(* The alerting engine of webhook_server.py: the price sampler             *)
(* (_refresh_prices_once), the bounded per-symbol history, the windowed     *)
(* baseline lookup (get_window_change), the alert evaluator                 *)
(* (check_alerts_and_notify) with its cooldown, the /predict reader and the *)
(* alert-rule handlers (/alerts).                                           *)
(*                                                                         *)
(* Units.  Times are seconds (time.time()).  Prices and 24h changes are     *)
(* integers.  A percent threshold is held in thousandths of a percent, so   *)
(* 5.001% is 5001.  A percent move is held as an exact fraction             *)
(* <<numerator, denominator>> (denominator > 0) of percent, so that the     *)
(* comparisons of the code are decided exactly.                             *)
(***************************************************************************)
EXTENDS Integers, Sequences, FiniteSets, TLC

\* ------------------------------------------------------------------ bounds
\* Number of clock ticks a behaviour may take.
MaxTicks == 1
\* time.time() when the process starts (any epoch time far above 30 minutes).
StartTime == 1700000000
\* Capacity of each history deque.  The source uses maxlen=1440; the model
\* keeps the deque semantics and scales the capacity.
HistCap == 2
\* Runs of the refresh job (on_start's priming included) in a behaviour of
\* the sampler alone; one less when other threads run beside it.
MaxRuns == 3
\* Seconds the clock advances per tick.
TickSeconds == 30 * 60

\* --------------------------------------------------------------- constants
None == "None"

\* src: COIN_IDS, restricted to two tracked coins.
COIN_IDS == <<"bitcoin", "ethereum">>

\* An id the upstream may answer with that is not in ID_TO_SYMBOL (for
\* instance the "status" key of an error body served with HTTP 200).
UnknownIds == {"status"}

Ids == {COIN_IDS[i] : i \in 1..Len(COIN_IDS)} \cup UnknownIds

\* str.upper() on the ids of the model.
Upper(cid) ==
    CASE cid = "bitcoin" -> "BITCOIN"
      [] cid = "ethereum" -> "ETHEREUM"
      [] cid = "status" -> "STATUS"

\* ID_TO_SYMBOL.get(cid, cid.upper())
ID_TO_SYMBOL(cid) ==
    CASE cid = "bitcoin" -> "BTC"
      [] cid = "ethereum" -> "ETH"
      [] OTHER -> Upper(cid)

\* SYMBOLS = list(ID_TO_SYMBOL.values())
SYMBOLS == {ID_TO_SYMBOL(COIN_IDS[i]) : i \in 1..Len(COIN_IDS)}

AllSymbols == {ID_TO_SYMBOL(cid) : cid \in Ids}

WINDOW_MINUTES == [w \in {"15m", "1h", "12h", "24h"} |->
    CASE w = "15m" -> 15 [] w = "1h" -> 60 [] w = "12h" -> 720 [] w = "24h" -> 1440]

\* 30*60 in check_alerts_and_notify
COOLDOWN == 30 * 60

\* ---------------------------------------------------------- pure functions
Abs(x) == IF x < 0 THEN -x ELSE x

\* percent_move(old, new): 0.0 if old <= 0, else (new - old) / old * 100.0,
\* as the fraction <<(new - old) * 100, old>>.
percent_move(old, new) ==
    IF old <= 0 THEN <<0, 1>> ELSE <<(new - old) * 100, old>>

\* mv >= p and mv <= -p for a fraction mv and a threshold p in thousandths.
FracGeq(mv, p) == mv[1] * 1000 >= p * mv[2]
FracLeq(mv, p) == mv[1] * 1000 <= p * mv[2]

\* A faulty variant of RuleHit: the DOWN branch compares against +percent.
RuleHitNoNeg(direction, percent, mv) ==
    \/ direction = "UP" /\ FracGeq(mv, percent)
    \/ direction = "DOWN" /\ FracLeq(mv, percent)

\* hit = (a.direction == "UP" and mv >= a.percent)
\*       or (a.direction == "DOWN" and mv <= -a.percent)
RuleHit(direction, percent, mv) ==
    \/ direction = "UP" /\ FracGeq(mv, percent)
    \/ direction = "DOWN" /\ FracLeq(mv, -percent)

\* f"{percent:.2f}": the sign and the magnitude rounded to hundredths of a
\* percent (the thresholds of the model are never exactly halfway); a
\* negative value that rounds to zero keeps its sign ("-0.00").
Fmt2(percent) ==
    <<IF percent < 0 THEN "-" ELSE "", (Abs(percent) + 5) \div 10>>

\* key = f"{a.email}:{sym}:{a.direction}:{a.percent:.2f}"
RuleKey(email, sym, direction, percent) == <<email, sym, direction, Fmt2(percent)>>

\* conf = 1 / (1 + exp(-abs(change) / 6)); round(conf * 100, 1), in tenths,
\* tabulated for the changes of the model (50.0 and 54.2).
Confidence(change) ==
    CASE Abs(change) = 0 -> 500
      [] Abs(change) = 1 -> 542

\* dict.get(key, default) on an optional field: <<>> is a missing key.
Get(opt, default) == IF opt = <<>> THEN default ELSE opt[1]

\* One iteration of the loop that builds data from raw.items().
Entry(item) ==
    LET change == Get(item.chg, 0)
    IN  [symbol |-> ID_TO_SYMBOL(item.cid), price |-> Get(item.usd, 0),
         change |-> change,
         prediction |-> IF change >= 0 THEN "UP" ELSE "DOWN",
         confidence |-> Confidence(change)]

BuildData(raw) == [i \in 1..Len(raw) |-> Entry(raw[i])]

\* A faulty variant of DequeAppend: a full deque drops the newest sample instead.
DequeAppendDropNew(hist, sample) ==
    IF Len(hist) >= HistCap THEN hist ELSE Append(hist, sample)

\* deque(maxlen=HistCap).append(sample)
DequeAppend(hist, sample) ==
    IF Len(hist) >= HistCap
        THEN Append(SubSeq(hist, Len(hist) - HistCap + 2, Len(hist)), sample)
        ELSE Append(hist, sample)

\* Index of the first sample of hist with ts >= cutoff, 0 when there is none.
FirstAtOrAfter(hist, cutoff) ==
    LET hits == {i \in 1..Len(hist) : hist[i][1] >= cutoff}
    IN  IF hits = {} THEN 0 ELSE CHOOSE i \in hits : \A j \in hits : i <= j

\* A faulty variant of Baseline: the oldest sample held is taken whatever its age.
BaselineOldest(hist, minutes, now, current_price) ==
    IF hist # <<>> THEN hist[1][2] ELSE current_price

\* A faulty variant of Baseline: the last recent sample is taken, not the first.
BaselineLast(hist, minutes, now, current_price) ==
    LET cutoff == now - minutes * 60
        hits == {i \in 1..Len(hist) : hist[i][1] >= cutoff}
    IN  IF hits # {} THEN hist[CHOOSE i \in hits : \A j \in hits : i >= j][2]
        ELSE IF hist # <<>> THEN hist[1][2] ELSE current_price

\* The base price of get_window_change for minutes > 0.
Baseline(hist, minutes, now, current_price) ==
    LET cutoff == now - minutes * 60
        k == FirstAtOrAfter(hist, cutoff)
    IN  IF k # 0 THEN hist[k][2]
        ELSE IF hist # <<>> THEN hist[1][2] ELSE current_price

\* get_window_change(sym, minutes, current_price), with hist =
\* price_history.get(sym, deque()) and now = time.time().
get_window_change(hist, minutes, now, current_price) ==
    IF minutes <= 0 THEN <<0, 1>>
    ELSE percent_move(Baseline(hist, minutes, now, current_price), current_price)

\* ------------------------------------------------------------ upstream feed
\* One provider-id entry of the upstream's JSON object.  usd and chg are
\* optional keys (<<>> when missing); bad marks a value float() rejects.
Item(cid, usd, chg) == [cid |-> cid, usd |-> <<usd>>, chg |-> <<chg>>, bad |-> FALSE]

\* The bodies r.json() may return with HTTP 200, in the order of raw.items():
\* both coins; one coin only; an entry under an id that is not a coin
\* between two coins; a value float() rejects.
Payloads ==
    { <<Item("bitcoin", 100, 0), Item("ethereum", 100, -1)>>,
      <<Item("bitcoin", 106, -1)>>,
      <<Item("bitcoin", 106, 0),
        [cid |-> "status", usd |-> <<>>, chg |-> <<>>, bad |-> FALSE],
        Item("ethereum", 106, 0)>>,
      <<[cid |-> "bitcoin", usd |-> <<0>>, chg |-> <<0>>, bad |-> TRUE]>> }

\* What requests.get / raise_for_status / r.json() raise, as str(e).
FetchErrors == {"ConnectionError"}

\* -------------------------------------------------------------------- state
VARIABLES
    clock,              \* time.time()
    started,            \* on_start has primed the cache and started the jobs
    prices_cache,       \* {"ts", "data", "stale", "error"}
    last_prices,        \* dict symbol -> price
    last_triggered_at,  \* dict rule key -> time
    price_history,      \* dict symbol -> deque of <<ts, price>>
    alerts,             \* rows of the Alert table, in id order
    rf,                 \* the activation of _refresh_prices_once of each caller
    ev,                 \* the activation of check_alerts_and_notify
    pr,                 \* the activation of the /predict handler
    hd,                 \* the activations of the /alerts handlers
    notified,           \* send_email calls of the evaluator: key -> times
    firedAt,            \* rule -> the time last_triggered_at was last set for it
    otp_store,          \* email -> the OTP issued to it and not yet used
    last_otp_sent_at,   \* email -> time.time() of the last OTP issued to it
    auth,               \* what the last /verify-otp call was given and returned
    upstream,           \* the bodies the provider answers with in this behaviour
    evalSeen,           \* sym_to_price of the evaluator's last finished cycle
    probe,              \* inputs and results of percent_move and the hit test
    budget              \* runs of the refresh job still to start

vars == <<clock, started, prices_cache, last_prices, last_triggered_at,
          price_history, alerts, rf, ev, pr, hd, notified, firedAt, evalSeen,
          probe, budget, otp_store, last_otp_sent_at, auth, upstream>>

\* The threads that call _refresh_prices_once: on_start and the scheduled
\* refresh ("job"), check_alerts_and_notify ("eval"), /predict ("predict").
Callers == {"job", "eval", "predict"}

\* A dict as a function with a finite domain.
Has(d, k) == k \in DOMAIN d
Put(d, k, v) == [x \in DOMAIN d \cup {k} |-> IF x = k THEN v ELSE d[x]]
EmptyDict == [x \in {} |-> 0]

IdleRefresh ==
    [pc |-> "idle", raw |-> <<>>, data |-> <<>>, now |-> 0, i |-> 0,
     msg |-> None, ret |-> FALSE,
     \* history variables of the call: the state at its entry, and whether
     \* no other thread wrote the cache or a history since
     preData |-> <<>>, preHist |-> [s \in SYMBOLS |-> <<>>], alone |-> TRUE,
     \* history variable: whether no other activation has fetched a payload
     \* since this one fetched its own
     newest |-> FALSE]

\* The activation of caller c becomes f; a write to the cache or a history
\* is noted in the other running activations.
Step(c, f, writes) ==
    [d \in Callers |->
        IF d = c THEN f
        ELSE IF writes /\ rf[d].pc # "idle" THEN [rf[d] EXCEPT !.alone = FALSE]
        ELSE rf[d]]

\* Entry of _refresh_prices_once for caller c.
CallRefresh(c) ==
    Step(c, [IdleRefresh EXCEPT !.pc = "fetch",
                                !.preData = prices_cache.data,
                                !.preHist = price_history], FALSE)

\* History variable of /predict: while the handler is between its first and
\* its last read of prices_cache, every value the cache takes is recorded.
Observe(cache) ==
    IF pr.pc = "read" THEN [pr EXCEPT !.snaps = @ \cup {cache}] ELSE pr

\* ---------------------------------------------------- _refresh_prices_once
\* A faulty variant of Caught: the exception leaves the function.
Propagated(f, msg) == [f EXCEPT !.pc = "raised", !.msg = msg]

\* An exception raised inside the try block: control goes to
\* "except Exception as e", with str(e) = msg.
Caught(f, msg) == [f EXCEPT !.pc = "set_error", !.msg = msg]

\* requests.get, the 429 test, raise_for_status, r.json(), the loop building
\* data, and now = time.time(): no shared state is written.
RefreshFetch(c) ==
    /\ rf[c].pc = "fetch"
    /\ \/ rf' = Step(c, [rf[c] EXCEPT !.pc = "set_error",
                            !.msg = "429 Too Many Requests"], FALSE)
       \/ \E e \in FetchErrors :
            rf' = Step(c, Caught(rf[c], e), FALSE)
       \/ \E raw \in upstream :
            IF \E i \in 1..Len(raw) : raw[i].bad
            THEN rf' = Step(c, Caught(rf[c], "TypeError"), FALSE)
            ELSE rf' = [d \in Callers |->
                        IF d = c
                        THEN [rf[c] EXCEPT !.pc = "update", !.raw = raw,
                                 !.data = BuildData(raw), !.now = clock,
                                 !.newest = TRUE]
                        ELSE [rf[d] EXCEPT !.newest = FALSE]]
    /\ UNCHANGED <<clock, started, prices_cache, last_prices, last_triggered_at,
                   price_history, alerts, ev, pr, hd, notified, firedAt, evalSeen, probe, budget,
                   otp_store, last_otp_sent_at, auth, upstream>>

\* A faulty variant of CacheUpdate: the stale flag is left as it was.
CacheUpdateKeepStale(cache, now, data) ==
    [cache EXCEPT !.ts = now, !.data = data, !.error = None]

\* prices_cache.update({"ts": now, "data": data, "stale": False, "error": None})
CacheUpdate(cache, now, data) ==
    [cache EXCEPT !.ts = now, !.data = data, !.stale = FALSE, !.error = None]

\* The dict update: one call, applied as a whole.
RefreshUpdate(c) ==
    /\ rf[c].pc = "update"
    /\ prices_cache' = CacheUpdate(prices_cache, rf[c].now, rf[c].data)
    /\ rf' = Step(c, IF rf[c].data = <<>>
                        THEN [rf[c] EXCEPT !.pc = "ret", !.ret = TRUE]
                        ELSE [rf[c] EXCEPT !.pc = "append", !.i = 1], TRUE)
    /\ pr' = Observe(prices_cache')
    /\ UNCHANGED <<clock, started, last_prices, last_triggered_at,
                   price_history, alerts, ev, hd, notified, firedAt, evalSeen, probe, budget,
                   otp_store, last_otp_sent_at, auth, upstream>>

\* One iteration of "for c in data": price_history[sym].append((now, price))
\* and last_prices[sym] = price; a symbol without a deque raises KeyError.
RefreshAppend(c) ==
    /\ rf[c].pc = "append"
    /\ LET e == rf[c].data[rf[c].i]
       IN  IF ~Has(price_history, e.symbol)
           THEN /\ rf' = Step(c, Caught(rf[c], "KeyError"), FALSE)
                /\ UNCHANGED <<price_history, last_prices>>
           ELSE /\ price_history' = [price_history EXCEPT ![e.symbol] =
                        DequeAppend(@, <<rf[c].now, e.price>>)]
                /\ last_prices' = Put(last_prices, e.symbol, e.price)
                /\ rf' = Step(c, IF rf[c].i = Len(rf[c].data)
                                    THEN [rf[c] EXCEPT !.pc = "ret", !.ret = TRUE]
                                    ELSE [rf[c] EXCEPT !.i = @ + 1], TRUE)
    /\ UNCHANGED <<clock, started, prices_cache, last_triggered_at,
                   alerts, ev, pr, hd, notified, firedAt, evalSeen, probe, budget,
                   otp_store, last_otp_sent_at, auth, upstream>>

\* prices_cache["error"], prices_cache["stale"] = msg, True: two stores, the
\* error first.
RefreshSetError(c) ==
    /\ rf[c].pc = "set_error"
    /\ prices_cache' = [prices_cache EXCEPT !.error = rf[c].msg]
    /\ rf' = Step(c, [rf[c] EXCEPT !.pc = "set_stale"], TRUE)
    /\ pr' = Observe(prices_cache')
    /\ UNCHANGED <<clock, started, last_prices, last_triggered_at,
                   price_history, alerts, ev, hd, notified, firedAt, evalSeen, probe, budget,
                   otp_store, last_otp_sent_at, auth, upstream>>

RefreshSetStale(c) ==
    /\ rf[c].pc = "set_stale"
    /\ prices_cache' = [prices_cache EXCEPT !.stale = TRUE]
    /\ rf' = Step(c, [rf[c] EXCEPT !.pc = "ret", !.ret = FALSE], TRUE)
    /\ pr' = Observe(prices_cache')
    /\ UNCHANGED <<clock, started, last_prices, last_triggered_at,
                   price_history, alerts, ev, hd, notified, firedAt, evalSeen, probe, budget,
                   otp_store, last_otp_sent_at, auth, upstream>>

\* --------------------------------------------- on_start, scheduled_refresh
\* on_start primes the cache with one refresh before the scheduler and the
\* request handlers run; afterwards the interval job calls it (max_instances=1).
JobStart ==
    /\ rf["job"].pc = "idle"
    /\ rf' = CallRefresh("job")
    /\ budget > 0
    /\ budget' = budget - 1
    /\ UNCHANGED <<clock, started, prices_cache, last_prices, last_triggered_at,
                   price_history, alerts, ev, pr, hd, notified, firedAt, evalSeen, probe,
                   otp_store, last_otp_sent_at, auth, upstream>>

\* The interval job of on_start, fired by the scheduler any number of times
\* (max_instances=1: not while a run is in progress).
scheduled_refresh ==
    /\ started
    /\ rf["job"].pc = "idle"
    /\ rf' = CallRefresh("job")
    /\ UNCHANGED <<clock, started, prices_cache, last_prices, last_triggered_at,
                   price_history, alerts, ev, pr, hd, notified, firedAt, evalSeen, probe,
                   budget,
                   otp_store, last_otp_sent_at, auth, upstream>>

JobEnd ==
    /\ rf["job"].pc = "ret"
    /\ rf' = Step("job", IdleRefresh, FALSE)
    /\ started' = TRUE
    /\ UNCHANGED <<clock, prices_cache, last_prices, last_triggered_at,
                   price_history, alerts, ev, pr, hd, notified, firedAt, evalSeen, probe, budget,
                   otp_store, last_otp_sent_at, auth, upstream>>

\* ------------------------------------------------------------------- clock
\* A thread whose next step calls time.time().
ReadsClock ==
    \/ \E c \in Callers : rf[c].pc = "fetch"
    \/ ev.pc \in {"rules", "stamp"}
    \/ pr.pc = "respond"

\* Time passes.  Only the steps that call time.time() observe it, so the
\* clock is advanced when one of them is about to run.
Tick ==
    /\ ReadsClock
    /\ clock < StartTime + MaxTicks * TickSeconds
    /\ clock' = clock + TickSeconds
    /\ UNCHANGED <<started, prices_cache, last_prices, last_triggered_at,
                   price_history, alerts, rf, ev, pr, hd, notified, firedAt, evalSeen, probe, budget,
                   otp_store, last_otp_sent_at, auth, upstream>>

\* -------------------------------------------------- check_alerts_and_notify
\* A faulty variant of NeedsRefresh: a stale cache is refreshed too.
NeedsRefreshStale(cache) == cache.data = <<>> \/ cache.stale

\* not prices_cache["data"]
NeedsRefresh(cache) == cache.data = <<>>

IdleEval ==
    [pc |-> "idle", sym_to_price |-> EmptyDict, records |-> <<>>, i |-> 0,
     key |-> <<>>,
     \* the last rule evaluated in this cycle: its symbol, prev_p, now_p, mv,
     \* hit, and what send_email returned for it ("none" when not called)
     cur |-> <<>>,
     \* whether a send_email call of this cycle has failed
     failed |-> FALSE]

\* sym_to_price = {c["symbol"]: float(c["price"]) for c in coins}: a later
\* entry of the same symbol replaces an earlier one.
SymToPrice(coins) ==
    LET syms == {coins[i].symbol : i \in 1..Len(coins)}
        last(s) == CHOOSE i \in 1..Len(coins) :
                      /\ coins[i].symbol = s
                      /\ \A j \in 1..Len(coins) : coins[j].symbol = s => j <= i
    IN  [s \in syms |-> coins[last(s)].price]

\* if not prices_cache["data"]: _refresh_prices_once()
EvalStart ==
    /\ started
    /\ ev.pc = "idle"
    /\ IF NeedsRefresh(prices_cache)
       THEN /\ rf["eval"].pc = "idle"
            /\ rf' = CallRefresh("eval")
            /\ ev' = [ev EXCEPT !.pc = "refresh"]
       ELSE /\ ev' = [ev EXCEPT !.pc = "load"]
            /\ UNCHANGED rf
    /\ UNCHANGED <<clock, started, prices_cache, last_prices, last_triggered_at,
                   price_history, alerts, pr, hd, notified, firedAt, evalSeen, probe, budget,
                   otp_store, last_otp_sent_at, auth, upstream>>

EvalRefreshed ==
    /\ ev.pc = "refresh"
    /\ rf["eval"].pc = "ret"
    /\ rf' = Step("eval", IdleRefresh, FALSE)
    /\ ev' = [ev EXCEPT !.pc = "load"]
    /\ UNCHANGED <<clock, started, prices_cache, last_prices, last_triggered_at,
                   price_history, alerts, pr, hd, notified, firedAt, evalSeen, probe, budget,
                   otp_store, last_otp_sent_at, auth, upstream>>

\* What get_session() / all_alerts(session) may do: return the rows, or
\* raise (the database is unreachable).
RepoOutcomes == {"ok", "OperationalError"}

\* coins = prices_cache["data"]; sym_to_price; records = all_alerts(session).
\* An exception goes to the function's except clause, which prints it; the
\* function returns without the update of last_prices.
EvalLoad ==
    /\ ev.pc = "load"
    /\ \E out \in RepoOutcomes :
        ev' = IF out = "ok"
              THEN [ev EXCEPT !.sym_to_price = SymToPrice(prices_cache.data),
                              !.records = alerts, !.i = 1,
                              !.pc = IF alerts = <<>> THEN "commit" ELSE "rules"]
              ELSE IdleEval
    /\ UNCHANGED <<clock, started, prices_cache, last_prices, last_triggered_at,
                   price_history, alerts, rf, pr, hd, notified, firedAt, evalSeen, probe, budget,
                   otp_store, last_otp_sent_at, auth, upstream>>

\* The loop's move to the next record, or to the code after the loop.
Advance(e) ==
    IF e.i = Len(e.records) THEN [e EXCEPT !.pc = "commit"]
    ELSE [e EXCEPT !.pc = "rules", !.i = @ + 1]

\* prev_p = last_prices.get(sym, now_p)
PrevPrice(prices, sym, now_p) ==
    IF Has(prices, sym) THEN prices[sym] ELSE now_p

\* last = last_triggered_at.get(key, 0.0); time.time() - last >= 30*60
CooldownOver(triggered, key, now) ==
    now - (IF Has(triggered, key) THEN triggered[key] ELSE 0) >= COOLDOWN

\* send_email catches every exception of the SMTP exchange and returns
\* {"success": True} or {"success": False, ...}.
SendOutcomes == {"ok", "failed"}

\* A faulty variant of AfterSend: a failed send leaves the loop.
AfterSendAbort(e, key, seen, sent) ==
    IF sent = "ok"
    THEN [e EXCEPT !.pc = "stamp", !.key = key, !.cur = seen]
    ELSE [e EXCEPT !.pc = "commit", !.cur = seen, !.failed = TRUE]

\* The evaluator after send_email(a.email, subject, body) has returned: the
\* result is discarded and the next statement stamps the key.
AfterSend(e, key, seen, sent) ==
    [e EXCEPT !.pc = "stamp", !.key = key, !.cur = seen,
              !.failed = @ \/ sent = "failed"]

\* One iteration of "for a in records", up to and including send_email.
EvalRule ==
    /\ ev.pc = "rules"
    /\ LET a == ev.records[ev.i]
           sym == a.symbol
       IN  IF ~Has(ev.sym_to_price, sym)
           THEN /\ ev' = [Advance(ev) EXCEPT !.cur = <<>>]
                /\ UNCHANGED notified
           ELSE LET now_p == ev.sym_to_price[sym]
                    prev_p == PrevPrice(last_prices, sym, now_p)
                    mv == percent_move(prev_p, now_p)
                    hit == RuleHit(a.direction, a.percent, mv)
                    key == RuleKey(a.email, sym, a.direction, a.percent)
                    seen == [sym |-> sym, prev_p |-> prev_p, now_p |-> now_p,
                             mv |-> mv, hit |-> hit, sent |-> "none"]
                IN  IF hit /\ CooldownOver(last_triggered_at, key, clock)
                    THEN /\ notified' = Put(notified, key,
                                Append(IF Has(notified, key) THEN notified[key]
                                       ELSE <<>>, clock))
                         /\ \E sent \in SendOutcomes :
                                ev' = AfterSend(ev, key,
                                                [seen EXCEPT !.sent = sent], sent)
                    ELSE /\ ev' = [Advance(ev) EXCEPT !.cur = seen]
                         /\ UNCHANGED notified
    /\ UNCHANGED <<clock, started, prices_cache, last_prices, last_triggered_at,
                   price_history, alerts, rf, pr, hd, firedAt, evalSeen, probe, budget,
                   otp_store, last_otp_sent_at, auth, upstream>>

\* last_triggered_at[key] = time.time(), after send_email has returned.
EvalStamp ==
    /\ ev.pc = "stamp"
    /\ last_triggered_at' = Put(last_triggered_at, ev.key, clock)
    /\ firedAt' = Put(firedAt, ev.records[ev.i], clock)
    /\ ev' = [Advance(ev) EXCEPT !.key = <<>>]
    /\ UNCHANGED <<clock, started, prices_cache, last_prices,
                   price_history, alerts, rf, pr, hd, notified, evalSeen, probe, budget,
                   otp_store, last_otp_sent_at, auth, upstream>>

\* for sym, p in sym_to_price.items(): last_prices[sym] = p
EvalCommit ==
    /\ ev.pc = "commit"
    /\ last_prices' = [s \in DOMAIN last_prices \cup DOMAIN ev.sym_to_price |->
            IF Has(ev.sym_to_price, s) THEN ev.sym_to_price[s] ELSE last_prices[s]]
    /\ evalSeen' = ev.sym_to_price
    /\ ev' = IdleEval
    /\ UNCHANGED <<clock, started, prices_cache, last_triggered_at,
                   price_history, alerts, rf, pr, hd, notified, firedAt, probe, budget,
                   otp_store, last_otp_sent_at, auth, upstream>>

\* ----------------------------------------------------------------- /predict
IdlePredict ==
    [pc |-> "idle", window |-> "", k |-> 0,
     coins |-> <<>>, ts |-> 0, stale |-> FALSE, err |-> None,
     \* history variable: the values of prices_cache since the first read
     snaps |-> {},
     resp |-> <<>>]

\* The window labels the handler is asked for.
QueryWindows == {"15m", "1h"}

\* if not prices_cache["data"]: _refresh_prices_once()
PredictStart ==
    /\ started
    /\ pr.pc = "idle"
    /\ IF NeedsRefresh(prices_cache)
       THEN /\ rf["predict"].pc = "idle"
            /\ rf' = CallRefresh("predict")
            /\ pr' = [pr EXCEPT !.pc = "refresh"]
       ELSE /\ pr' = [pr EXCEPT !.pc = "read", !.k = 1]
            /\ UNCHANGED rf
    /\ UNCHANGED <<clock, started, prices_cache, last_prices, last_triggered_at,
                   price_history, alerts, ev, hd, notified, firedAt, evalSeen, probe, budget,
                   otp_store, last_otp_sent_at, auth, upstream>>

PredictRefreshed ==
    /\ pr.pc = "refresh"
    /\ rf["predict"].pc = "ret"
    /\ rf' = Step("predict", IdleRefresh, FALSE)
    /\ pr' = [pr EXCEPT !.pc = "read", !.k = 1]
    /\ UNCHANGED <<clock, started, prices_cache, last_prices, last_triggered_at,
                   price_history, alerts, ev, hd, notified, firedAt, evalSeen, probe, budget,
                   otp_store, last_otp_sent_at, auth, upstream>>

\* coins, ts, stale, err = prices_cache["data"], prices_cache["ts"],
\*                         prices_cache["stale"], prices_cache["error"]:
\* four subscript reads, left to right.
ReadField(p, cache) ==
    CASE p.k = 1 -> [p EXCEPT !.coins = cache.data]
      [] p.k = 2 -> [p EXCEPT !.ts = cache.ts]
      [] p.k = 3 -> [p EXCEPT !.stale = cache.stale]
      [] p.k = 4 -> [p EXCEPT !.err = cache.error]

PredictRead ==
    /\ pr.pc = "read"
    /\ LET q == ReadField(pr, prices_cache)
           seen == IF pr.k = 1 THEN {prices_cache} ELSE pr.snaps
       IN  pr' = IF pr.k = 4
                 THEN [q EXCEPT !.pc = "respond", !.k = 0, !.snaps = seen]
                 ELSE [q EXCEPT !.k = @ + 1, !.snaps = seen]
    /\ UNCHANGED <<clock, started, prices_cache, last_prices, last_triggered_at,
                   price_history, alerts, rf, ev, hd, notified, firedAt, evalSeen, probe, budget,
                   otp_store, last_otp_sent_at, auth, upstream>>

\* The loop building "enriched" and the returned object.
Enriched(coins, minutes, now, history) ==
    [i \in 1..Len(coins) |->
        LET c == coins[i]
            hist == IF Has(history, c.symbol) THEN history[c.symbol] ELSE <<>>
        IN  [symbol |-> c.symbol, price |-> c.price,
             change |-> get_window_change(hist, minutes, now, c.price),
             prediction |-> c.prediction, confidence |-> c.confidence]]

\* get_window_change iterates a deque that a refresh may append to at the
\* same time; the iterator then raises RuntimeError, which the handler's
\* except clause turns into an error object.  The outcomes of the loop:
LoopOutcomes(coins) ==
    {"ok"} \cup
    IF \E c \in Callers : /\ rf[c].pc = "append"
                          /\ \E i \in 1..Len(coins) :
                                coins[i].symbol = rf[c].data[rf[c].i].symbol
    THEN {"RuntimeError"} ELSE {}

\* minutes = WINDOW_MINUTES.get(window, 1440), the loop and the return value.
\* The window is a parameter of the request; it is first used here.
PredictRespond ==
    /\ pr.pc = "respond"
    /\ \E w \in QueryWindows, out \in LoopOutcomes(pr.coins) :
        pr' = [pr EXCEPT !.pc = "done", !.window = w,
                !.resp = [window |-> w, stale |-> pr.stale,
                          error |-> IF out = "ok" THEN None ELSE out,
                          coins |-> IF out = "ok"
                                    THEN Enriched(pr.coins, WINDOW_MINUTES[w],
                                                  clock, price_history)
                                    ELSE <<>>,
                          backend_ts |-> pr.ts, backend_error |-> pr.err]]
    /\ UNCHANGED <<clock, started, prices_cache, last_prices, last_triggered_at,
                   price_history, alerts, rf, ev, hd, notified, firedAt, evalSeen, probe, budget,
                   otp_store, last_otp_sent_at, auth, upstream>>

PredictReturn ==
    /\ pr.pc = "done"
    /\ pr' = IdlePredict
    /\ UNCHANGED <<clock, started, prices_cache, last_prices, last_triggered_at,
                   price_history, alerts, rf, ev, hd, notified, firedAt, evalSeen, probe, budget,
                   otp_store, last_otp_sent_at, auth, upstream>>

\* ------------------------------------------------------------- alert rules
Rule(email, symbol, direction, percent) ==
    [email |-> email, symbol |-> symbol, direction |-> direction, percent |-> percent]

\* The rows of the Alert table the engine runs against: two rules of one
\* owner on one symbol and direction, with thresholds 0% and 0.004%.
StoredAlerts ==
    << Rule("a@x.io", "BTC", "UP", 0),
       Rule("a@x.io", "BTC", "UP", 4) >>

\* ------------------------------------------------------------------ /alerts
\* Request handlers run on worker threads: two requests may be in flight.
Handlers == {1, 2}
IdleHandler ==
    [pc |-> "idle", route |-> "", e |-> "", symbol |-> "", direction |-> "",
     percent |-> 0, existing |-> FALSE]

\* Rows the Alert table may hold in a behaviour of the handlers.
MaxAlerts == 3

\* The inputs of the requests: the owner as typed, the symbol, the
\* direction, the threshold (thousandths of a percent).
RawEmails == {"a@x.io", " A@X.io"}
ReqSymbols == {"BTC"}
ReqDirections == {"UP", "DOWN"}
ReqPercents == {0, 5000}

\* email.strip().lower()
Normalize(email) ==
    CASE email = "a@x.io" -> "a@x.io"
      [] email = " A@X.io" -> "a@x.io"

\* (Alert.email == e) & (Alert.symbol == symbol) &
\* (Alert.direction == direction) & (Alert.percent == float(percent))
Matches(row, e, symbol, direction, percent) ==
    /\ row.email = e
    /\ row.symbol = symbol
    /\ row.direction = direction
    /\ row.percent = percent

\* The first half of create_alert / create_alert_get: e, ensure_user and the
\* select of an existing row.  ensure_user writes the User table only, which
\* no rule depends on; it is not modelled.
SelectExisting(h, route, email, symbol, direction, percent) ==
    /\ hd[h].pc = "idle"
    /\ Len(alerts) + Cardinality({g \in Handlers : hd[g].pc # "idle"}) < MaxAlerts
    /\ LET e == Normalize(email)
       IN  hd' = [hd EXCEPT ![h] =
                [pc |-> "selected", route |-> route, e |-> e, symbol |-> symbol,
                 direction |-> direction, percent |-> percent,
                 existing |-> \E i \in 1..Len(alerts) :
                                 Matches(alerts[i], e, symbol, direction, percent)]]
    /\ UNCHANGED <<clock, started, prices_cache, last_prices, last_triggered_at,
                   price_history, alerts, rf, ev, pr, notified, firedAt, evalSeen, probe, budget,
                   otp_store, last_otp_sent_at, auth, upstream>>

\* POST /alerts
create_alert(h) ==
    \E email \in RawEmails, symbol \in ReqSymbols,
       direction \in ReqDirections, percent \in ReqPercents :
        SelectExisting(h, "POST", email, symbol, direction, percent)

\* GET /alerts/add
create_alert_get(h) ==
    \E email \in RawEmails, symbol \in ReqSymbols,
       direction \in ReqDirections, percent \in ReqPercents :
        SelectExisting(h, "GET", email, symbol, direction, percent)

\* if not existing: session.add(Alert(...)); session.commit()
InsertIfNew(rows, f) ==
    IF f.existing THEN rows
    ELSE Append(rows, Rule(f.e, f.symbol, f.direction, f.percent))

\* The second half of create_alert / create_alert_get.
CreateFinish(h) ==
    /\ hd[h].pc = "selected"
    /\ alerts' = InsertIfNew(alerts, hd[h])
    /\ hd' = [hd EXCEPT ![h] = IdleHandler]
    /\ UNCHANGED <<clock, started, prices_cache, last_prices, last_triggered_at,
                   price_history, rf, ev, pr, notified, firedAt, evalSeen, probe, budget,
                   otp_store, last_otp_sent_at, auth, upstream>>

\* The rows of a table that do not match, in their order.
Without(rows, e, symbol, direction, percent) ==
    LET keep == {i \in 1..Len(rows) : ~Matches(rows[i], e, symbol, direction, percent)}
        nth(k) == CHOOSE i \in keep : Cardinality({j \in keep : j < i}) = k - 1
    IN  [k \in 1..Cardinality(keep) |-> rows[nth(k)]]

\* DELETE /alerts: every matching row is deleted in one transaction.
delete_alert ==
    /\ \E email \in RawEmails, symbol \in ReqSymbols,
          direction \in ReqDirections, percent \in ReqPercents :
        alerts' = Without(alerts, Normalize(email), symbol, direction, percent)
    /\ UNCHANGED <<clock, started, prices_cache, last_prices, last_triggered_at,
                   price_history, rf, ev, pr, hd, notified, firedAt, evalSeen, probe, budget,
                   otp_store, last_otp_sent_at, auth, upstream>>

\* ---------------------------------------------------- /send-otp, /verify-otp
\* Times the clock may advance between two OTP requests.
MaxWaits == 3
\* Seconds that pass between two requests when time passes.
WaitSeconds == 5 * 60

OtpEmails == {"a@x.io", "b@x.io"}
\* Values of random.randint(100000, 999999), as strings.
OtpCodes == {"123456", "654321"}
\* The otp a /verify-otp request may carry: a code, or a string that is not
\* six digits.
OtpInputs == OtpCodes \cup {"12345"}

\* dict.pop(k, None)
Pop(d, k) == [x \in DOMAIN d \ {k} |-> d[x]]

\* not otp or len(otp) != 6 or not otp.isdigit(), on the inputs of the model
BadFormat(otp) == otp \notin OtpCodes

\* POST /send-otp.  The result of send_email decides the response only.
send_otp(email) ==
    /\ LET last == IF Has(last_otp_sent_at, email) THEN last_otp_sent_at[email] ELSE 0
       IN  IF clock - last < 60
           THEN UNCHANGED <<otp_store, last_otp_sent_at>>
           ELSE /\ last_otp_sent_at' = Put(last_otp_sent_at, email, clock)
                /\ \E otp \in OtpCodes : otp_store' = Put(otp_store, email, otp)
    /\ UNCHANGED <<clock, started, prices_cache, last_prices, last_triggered_at,
                   price_history, alerts, rf, ev, pr, hd, notified, firedAt, evalSeen,
                   probe, budget, auth, upstream>>

\* POST /verify-otp.  auth records the request, the time of the call, the
\* time the stored OTP was issued, and the "authenticated" field returned.
verify_otp(email, otp) ==
    /\ LET ok == /\ ~BadFormat(otp)
                 /\ Has(otp_store, email)
                 /\ otp_store[email] = otp
       IN  /\ otp_store' = IF ok THEN Pop(otp_store, email) ELSE otp_store
           /\ auth' = [email |-> email, otp |-> otp, at |-> clock,
                       issued |-> IF Has(last_otp_sent_at, email)
                                  THEN last_otp_sent_at[email] ELSE 0,
                       authenticated |-> ok]
    /\ UNCHANGED <<clock, started, prices_cache, last_prices, last_triggered_at,
                   price_history, alerts, rf, ev, pr, hd, notified, firedAt, evalSeen,
                   probe, budget, last_otp_sent_at, upstream>>

\* Time passes between two requests.
Wait ==
    /\ clock < StartTime + MaxWaits * WaitSeconds
    /\ clock' = clock + WaitSeconds
    /\ UNCHANGED <<started, prices_cache, last_prices, last_triggered_at,
                   price_history, alerts, rf, ev, pr, hd, notified, firedAt, evalSeen,
                   probe, budget, otp_store, last_otp_sent_at, auth, upstream>>

\* ---------------------------------------------------------- specifications
\* The module-level state, before on_start, with the rows of the Alert table
\* and the number of runs of the refresh job (on_start's priming included) a
\* behaviour may take.
InitFeed(runs, table, bodies) ==
    /\ upstream = bodies
    /\ clock = StartTime
    /\ started = FALSE
    /\ prices_cache = [ts |-> 0, data |-> <<>>, stale |-> TRUE, error |-> None]
    /\ last_prices = EmptyDict
    /\ last_triggered_at = EmptyDict
    /\ price_history = [s \in SYMBOLS |-> <<>>]
    /\ alerts = table
    /\ rf = [c \in Callers |-> IdleRefresh]
    /\ ev = IdleEval
    /\ pr = IdlePredict
    /\ hd = [h \in Handlers |-> IdleHandler]
    /\ notified = EmptyDict
    /\ firedAt = EmptyDict
    /\ otp_store = EmptyDict
    /\ last_otp_sent_at = EmptyDict
    /\ auth = <<>>
    /\ evalSeen = EmptyDict
    /\ probe = <<>>
    /\ budget = runs

\* The same with every body of Payloads possible.
InitWith(runs, table) == InitFeed(runs, table, Payloads)

Refresh(c) ==
    \/ RefreshFetch(c)
    \/ RefreshUpdate(c)
    \/ RefreshAppend(c)
    \/ RefreshSetError(c)
    \/ RefreshSetStale(c)

\* The sampler: on_start's priming run and the interval job.
Sampler ==
    \/ JobStart
    \/ JobEnd
    \/ \E c \in Callers : Refresh(c)
    \/ Tick

Evaluator ==
    \/ EvalStart
    \/ EvalRefreshed
    \/ EvalLoad
    \/ EvalRule
    \/ EvalStamp
    \/ EvalCommit

Query ==
    \/ PredictStart
    \/ PredictRefreshed
    \/ PredictRead
    \/ PredictRespond
    \/ PredictReturn

Repository ==
    \/ \E h \in Handlers : create_alert(h)
    \/ \E h \in Handlers : create_alert_get(h)
    \/ \E h \in Handlers : CreateFinish(h)
    \/ delete_alert

\* The alerting engine: the sampler and the evaluator, each on its timer.
Init == InitWith(MaxRuns - 1, StoredAlerts)
Next == Sampler \/ Evaluator
Spec == Init /\ [][Next]_vars

\* The sampler alone.
InitSampler == InitWith(MaxRuns, StoredAlerts)
SpecSampler == InitSampler /\ [][Sampler]_vars

\* The sampler and the /predict handler.
NextQuery == Sampler \/ Query
SpecQuery == Init /\ [][NextQuery]_vars

\* The /alerts handlers on an empty table.
InitRepo == InitWith(0, <<>>)
SpecRepo == InitRepo /\ [][Repository]_vars

\* The two interval jobs running for ever: the priming run, then the refresh
\* job and the evaluation job as often as the scheduler fires them.  The
\* scheduler fires each job again and again, and a thread that can take a
\* step takes it.  The table holds one rule, and the provider quotes
\* bitcoin at one price whenever it quotes it.
JobPayloads ==
    {raw \in Payloads :
        \A i \in 1..Len(raw) :
            (raw[i].cid = "bitcoin" /\ ~raw[i].bad) => raw[i].usd = <<106>>}
InitJobs == InitFeed(1, <<StoredAlerts[1]>>, JobPayloads)
NextJobs ==
    \/ JobStart
    \/ scheduled_refresh
    \/ JobEnd
    \/ \E c \in Callers : Refresh(c)
    \/ Evaluator
FairJobs ==
    /\ WF_vars(JobStart \/ scheduled_refresh \/ JobEnd \/ Refresh("job"))
    /\ WF_vars(Evaluator \/ Refresh("eval"))
SpecJobs == InitJobs /\ [][NextJobs]_vars /\ FairJobs

\* The OTP endpoints.
NextOtp ==
    \/ \E email \in OtpEmails : send_otp(email)
    \/ \E email \in OtpEmails, otp \in OtpInputs : verify_otp(email, otp)
    \/ Wait
SpecOtp == InitRepo /\ [][NextOtp]_vars

\* ------------------------------------------------- percent_move and the hit
\* The previous and current prices and the rules the hit test is applied to.
MovePrev == {-100, 0, 100}
MoveCur == {94, 96, 100, 104, 106}
MovePercents == {0, 5000}

InitMove ==
    /\ clock = StartTime
    /\ started = FALSE
    /\ prices_cache = [ts |-> 0, data |-> <<>>, stale |-> TRUE, error |-> None]
    /\ last_prices = EmptyDict
    /\ last_triggered_at = EmptyDict
    /\ price_history = [s \in SYMBOLS |-> <<>>]
    /\ alerts = <<>>
    /\ rf = [c \in Callers |-> IdleRefresh]
    /\ ev = IdleEval
    /\ pr = IdlePredict
    /\ hd = [h \in Handlers |-> IdleHandler]
    /\ notified = EmptyDict
    /\ firedAt = EmptyDict
    /\ otp_store = EmptyDict
    /\ last_otp_sent_at = EmptyDict
    /\ auth = <<>>
    /\ upstream = Payloads
    /\ evalSeen = EmptyDict
    /\ budget = 0
    /\ \E prev \in MovePrev, cur \in MoveCur,
          direction \in ReqDirections, percent \in MovePercents :
        probe = [prev_p |-> prev, now_p |-> cur, direction |-> direction,
                 percent |-> percent, mv |-> <<0, 1>>, hit |-> FALSE, done |-> FALSE]

\* mv = percent_move(prev_p, now_p); hit = ..., as in check_alerts_and_notify.
ApplyMove ==
    /\ ~probe.done
    /\ LET mv == percent_move(probe.prev_p, probe.now_p)
       IN  probe' = [probe EXCEPT !.mv = mv,
                        !.hit = RuleHit(probe.direction, probe.percent, mv),
                        !.done = TRUE]
    /\ UNCHANGED <<clock, started, prices_cache, last_prices, last_triggered_at,
                   price_history, alerts, rf, ev, pr, hd, notified, firedAt, evalSeen, budget,
                   otp_store, last_otp_sent_at, auth, upstream>>

SpecMove == InitMove /\ [][ApplyMove]_vars

\* ------------------------------------------------ /predict on a given history
\* Samples a history is seeded with (up to its capacity): their age in
\* seconds at the time of the query, and their price.  Two refreshes that
\* overlap may append in either order, so the samples come in any order.
SeedAges == {60, 1200, 4000}
SeedPrices == {100, 103}
SeedSamples == {<<StartTime - a, p>> : a \in SeedAges, p \in SeedPrices}
SeedHistories ==
    UNION {[1..n -> SeedSamples] : n \in 0..HistCap}

\* The process some time after on_start: BTC's history and its cached entry
\* are given, the handler is idle, no refresh runs.
InitWindow ==
    /\ clock = StartTime
    /\ started = TRUE
    /\ \E price \in SeedPrices :
        prices_cache = [ts |-> StartTime - 60,
                        data |-> <<Entry(Item("bitcoin", price, 0))>>,
                        stale |-> FALSE, error |-> None]
    /\ last_prices = EmptyDict
    /\ last_triggered_at = EmptyDict
    /\ \E h \in SeedHistories :
        price_history = [s \in SYMBOLS |-> IF s = "BTC" THEN h ELSE <<>>]
    /\ alerts = <<>>
    /\ rf = [c \in Callers |-> IdleRefresh]
    /\ ev = IdleEval
    /\ pr = IdlePredict
    /\ hd = [h \in Handlers |-> IdleHandler]
    /\ notified = EmptyDict
    /\ firedAt = EmptyDict
    /\ otp_store = EmptyDict
    /\ last_otp_sent_at = EmptyDict
    /\ auth = <<>>
    /\ upstream = Payloads
    /\ evalSeen = EmptyDict
    /\ probe = <<>>
    /\ budget = 0

NextWindow ==
    \/ PredictStart
    \/ PredictRead
    \/ PredictRespond
    \/ PredictReturn

SpecWindow == InitWindow /\ [][NextWindow]_vars

\* ================================================================== claims
\* A fraction mv is the percent move from price b to price p.
IsMove(mv, b, p) ==
    /\ mv[2] > 0
    /\ IF b > 0 THEN mv[1] * b = (p - b) * 100 * mv[2] ELSE mv[1] = 0

\* C1: a rule on symbol s is evaluated against the price the evaluator
\* observed for s on its immediately preceding cycle: whenever that cycle
\* observed p > 0 and this one observes c, the move used is (c - p) / p * 100.
C1_PrevIsLastObserved ==
    (ev.cur # <<>> /\ Has(evalSeen, ev.cur.sym) /\ evalSeen[ev.cur.sym] > 0)
        => IsMove(ev.cur.mv, evalSeen[ev.cur.sym], ev.cur.now_p)

\* The rule an iteration of the evaluator's loop is about.
CurRule == ev.records[ev.i]

\* Whether rule a may fire at time now: no fire is recorded for it, or at
\* least 30 minutes have elapsed since the recorded one.
Due(a, now) ==
    \/ ~Has(firedAt, a)
    \/ now - firedAt[a] >= 30 * 60

\* C2: for every rule (owner, symbol, direction, threshold), when a cycle
\* finds the rule hit, a notification is dispatched and the time recorded if
\* and only if no fire is recorded for the rule or at least 30 minutes have
\* elapsed since its recorded fire; otherwise nothing is sent.
C2_Cooldown ==
    [][ (/\ ev.pc = "rules"
         /\ ev' # ev
         /\ Has(ev.sym_to_price, CurRule.symbol)
         /\ ev'.cur.hit)
            => IF Due(CurRule, clock)
               THEN /\ ev'.pc = "stamp"
                    /\ notified' # notified
               ELSE /\ ev'.pc # "stamp"
                    /\ notified' = notified
      ]_vars

\* C3: the move is (cur - prev) / prev * 100 for prev > 0 and 0 for
\* prev <= 0; the rule hits exactly when direction = UP and move >= threshold
\* or direction = DOWN and move <= -threshold; with threshold 5 and prev 100,
\* UP hits at 106 and not at 104, DOWN hits at 94 and not at 96.
C3_MoveAndHit ==
    probe.done =>
        LET prev == probe.prev_p
            cur == probe.now_p
            \* the move in thousandths of a percent, times prev
            scaled == IF prev > 0 THEN (cur - prev) * 100 * 1000 ELSE 0
            unit == IF prev > 0 THEN prev ELSE 1
        IN  /\ IsMove(probe.mv, prev, cur)
            /\ probe.hit <=>
                \/ probe.direction = "UP" /\ scaled >= probe.percent * unit
                \/ probe.direction = "DOWN" /\ scaled <= -probe.percent * unit
            /\ (prev = 100 /\ probe.percent = 5000 /\ probe.direction = "UP") =>
                /\ cur = 106 => probe.hit
                /\ cur = 104 => ~probe.hit
            /\ (prev = 100 /\ probe.percent = 5000 /\ probe.direction = "DOWN") =>
                /\ cur = 94 => probe.hit
                /\ cur = 96 => ~probe.hit

\* C3 witness: the DOWN rule of 5% has been evaluated on 100 -> 94 and hits.
C3_Witness ==
    /\ probe.done
    /\ probe.prev_p = 100
    /\ probe.now_p = 94
    /\ probe.direction = "DOWN"
    /\ probe.percent = 5000
    /\ probe.hit

\* C4: whenever _refresh_prices_once returns false, the cache entries and
\* every history are what they were before the call, stale is true and the
\* error holds a diagnostic string.
C4_FailedRefreshLeavesState ==
    \A c \in Callers :
        (rf[c].pc = "ret" /\ ~rf[c].ret /\ rf[c].alone) =>
            /\ prices_cache.data = rf[c].preData
            /\ price_history = rf[c].preHist
            /\ prices_cache.stale
            /\ prices_cache.error # None

\* The symbol and price an item of a payload stands for.
ItemSymbol(item) ==
    CASE item.cid = "bitcoin" -> "BTC"
      [] item.cid = "ethereum" -> "ETH"
      [] OTHER -> "?"
ItemPrice(item) == IF item.usd = <<>> THEN 0 ELSE item.usd[1]
ItemChange(item) == IF item.chg = <<>> THEN 0 ELSE item.chg[1]

\* C5: whenever _refresh_prices_once returns true, the cache entries are the
\* entries built from that fetch's payload (direction UP iff change >= 0),
\* stale is false, the error is cleared, and exactly one sample (fetch time,
\* fetched price) has been appended to the history of each symbol of the
\* payload and to no other history.
C5_SuccessfulRefresh ==
    \A c \in Callers :
        (rf[c].pc = "ret" /\ rf[c].ret /\ rf[c].alone) =>
            LET raw == rf[c].raw
                data == prices_cache.data
            IN  /\ Len(data) = Len(raw)
                /\ \A i \in 1..Len(raw) :
                    /\ data[i].symbol = ItemSymbol(raw[i])
                    /\ data[i].price = ItemPrice(raw[i])
                    /\ data[i].change = ItemChange(raw[i])
                    /\ data[i].prediction = "UP" <=> ItemChange(raw[i]) >= 0
                    /\ data[i].prediction \in {"UP", "DOWN"}
                /\ prices_cache.ts = rf[c].now
                /\ ~prices_cache.stale
                /\ prices_cache.error = None
                /\ \A s \in SYMBOLS :
                    LET old == rf[c].preHist[s]
                        new == price_history[s]
                        at == {i \in 1..Len(raw) : ItemSymbol(raw[i]) = s}
                    IN  IF at = {} THEN new = old
                        ELSE /\ Cardinality(at) = 1
                             /\ new # <<>>
                             /\ \A i \in at :
                                  new[Len(new)] = <<rf[c].now, ItemPrice(raw[i])>>
                             /\ SubSeq(new, 1, Len(new) - 1) =
                                  IF Len(old) < HistCap THEN old ELSE Tail(old)

\* C5 witness: a refresh of both coins has returned true on a history that
\* already held a sample.
C5_Witness ==
    \E c \in Callers :
        /\ rf[c].pc = "ret"
        /\ rf[c].ret
        /\ rf[c].alone
        /\ Len(rf[c].raw) = 2
        /\ rf[c].preHist["BTC"] # <<>>

\* C6: the tuple (data, ts, stale, error) the /predict handler has read is a
\* value prices_cache had as a whole at some moment of the read.
C6_ReadIsConsistent ==
    pr.pc \in {"respond", "done"} =>
        \E c \in pr.snaps :
            /\ c.data = pr.coins
            /\ c.ts = pr.ts
            /\ c.stale = pr.stale
            /\ c.error = pr.err

\* The first coin of the request in flight, its history and its window.
QCoin == pr.coins[1]
QHist == price_history[QCoin.symbol]
QCutoff == clock - WINDOW_MINUTES[pr.window] * 60
QRecent == {i \in 1..Len(QHist) : QHist[i][1] >= QCutoff}
QChange == pr.resp.coins[1].change

C8_BoundedFifo ==
    [][ /\ \A s \in SYMBOLS : Len(price_history'[s]) <= HistCap
        /\ \A c \in Callers :
            (rf[c].pc = "append" /\ rf'[c] # rf[c] /\ rf'[c].pc # "set_error") =>
                LET e == rf[c].data[rf[c].i]
                    old == price_history[e.symbol]
                    new == price_history'[e.symbol]
                IN  /\ new # <<>>
                    /\ new[Len(new)] = <<rf[c].now, e.price>>
                    /\ IF Len(old) < HistCap
                       THEN /\ Len(new) = Len(old) + 1
                            /\ \A k \in 1..Len(old) : new[k] = old[k]
                       ELSE /\ Len(new) = HistCap
                            /\ \A k \in 1..(HistCap - 1) : new[k] = old[k + 1]
                    /\ \A s \in SYMBOLS \ {e.symbol} :
                            price_history'[s] = price_history[s]
        /\ (\A c \in Callers : rf[c].pc # "append") =>
                price_history' = price_history
      ]_vars

\* C8 witness: a refresh has appended to a full history of BTC and returned.
C8_Witness ==
    /\ rf["job"].pc = "ret"
    /\ rf["job"].ret
    /\ Len(rf["job"].preHist["BTC"]) = HistCap
    /\ Len(price_history["BTC"]) = HistCap
    /\ price_history["BTC"][1] = rf["job"].preHist["BTC"][2]

\* The scenario of C9: BTC's history is [(t - 20 min, 100), (t - 1 min, 103)],
\* the cached BTC price is 103, and a query at time t has been answered.
C9_Scenario ==
    /\ pr.pc = "done"
    /\ QCoin.symbol = "BTC"
    /\ QCoin.price = 103
    /\ QHist = <<<<clock - 20 * 60, 100>>, <<clock - 60, 103>>>>

\* C9 as stated: in the scenario the query with window "15m" reports a
\* change of +3% for BTC and the query with window "1h" reports +3% too.
C9_AsStated ==
    C9_Scenario =>
        /\ pr.window = "15m" => QChange[1] = 3 * QChange[2]
        /\ pr.window = "1h" => QChange[1] = 3 * QChange[2]

\* C9: in the scenario the query with window "15m" reports a change of 0%
\* for BTC (the only sample inside the window is the one at 103) and the
\* query with window "1h" reports +3% (baseline 100 from the t-20min sample).
C9_Amended ==
    C9_Scenario =>
        /\ QChange[2] > 0
        /\ pr.window = "15m" => QChange[1] = 0
        /\ pr.window = "1h" => QChange[1] = 3 * QChange[2]

\* C9 witness: the scenario, queried with window "15m".
C9_Witness == C9_Scenario /\ pr.window = "15m" /\ pr.resp.error = None

\* C10: the stored rule set contains at most one rule for each
\* (owner, symbol, direction, threshold).
C10_NoDuplicateRule ==
    \A i, j \in 1..Len(alerts) : i # j => alerts[i] # alerts[j]

\* C11: when send_email fails for a rule that hits and is out of cooldown,
\* the cycle still stamps last_triggered_at for that rule's key, still goes
\* on to every remaining rule, and still ends by recording every symbol's
\* current price in last_prices.
C11_NotifierFailure ==
    [][ /\ (/\ ev.pc = "rules"
            /\ ev' # ev
            /\ ev'.cur # <<>>
            /\ ev'.cur.sent = "failed") =>
                /\ ev'.pc = "stamp"
                /\ ev'.i = ev.i
                /\ ev'.failed
        /\ (ev.pc = "stamp" /\ ev.cur.sent = "failed" /\ ev' # ev) =>
            LET key == <<CurRule.email, CurRule.symbol, CurRule.direction,
                         Fmt2(CurRule.percent)>>
            IN  /\ Has(last_triggered_at', key)
                /\ last_triggered_at'[key] = clock
        /\ (ev.failed /\ ev.pc \in {"rules", "stamp"} /\ ev' # ev) =>
            /\ ev'.failed
            /\ ev'.records = ev.records
            /\ \/ ev.pc = "rules" /\ ev'.pc = "stamp" /\ ev'.i = ev.i
               \/ ev.i < Len(ev.records) /\ ev'.pc = "rules" /\ ev'.i = ev.i + 1
               \/ ev.i = Len(ev.records) /\ ev'.pc = "commit"
        /\ (ev.failed /\ ev.pc = "commit" /\ ev' # ev) =>
            \A s \in DOMAIN ev.sym_to_price :
                /\ Has(last_prices', s)
                /\ last_prices'[s] = ev.sym_to_price[s]
      ]_vars

\* C11 witness: the send for the first of two rules failed, its key has been
\* stamped, the second rule has been evaluated and the cycle is at its end.
C11_Witness ==
    /\ ev.pc = "commit"
    /\ ev.failed
    /\ Len(ev.records) = 2
    /\ ev.i = 2
    /\ ev.cur.sent = "none"
    /\ \E key \in DOMAIN last_triggered_at : last_triggered_at[key] = clock

\* C12: no run of the refresh job or of the evaluation job ends with an
\* exception leaving the function, whatever the upstream, the repository or
\* the notifier does; each job returns, and each is run again and again.
C12_JobsKeepRunning ==
    /\ [](\A c \in Callers : rf[c].pc # "raised")
    /\ []<>(rf["job"].pc = "fetch")
    /\ []<>(ev.pc = "load")

\* C12 witness: a run of the refresh job has returned false on an exception
\* while the evaluator is in a cycle.
C12_Witness ==
    /\ started
    /\ rf["job"].pc = "ret"
    /\ ~rf["job"].ret
    /\ rf["job"].msg \in {"ConnectionError", "TypeError", "KeyError"}
    /\ ev.pc = "stamp"
    /\ ev.failed

\* C13: within one cycle all rules on the same symbol are compared against
\* the same previous price and the same current price, also when a refresh
\* runs concurrently with the cycle.
C13_SameBaseline ==
    [][ (/\ ev.pc = "rules"
         /\ ev' # ev
         /\ ev.cur # <<>>
         /\ ev'.cur # <<>>
         /\ ev'.cur.sym = ev.cur.sym)
            => /\ ev'.cur.prev_p = ev.cur.prev_p
               /\ ev'.cur.now_p = ev.cur.now_p
      ]_vars

\* No refresh is between its entry and its return.
Quiescent == \A c \in Callers : rf[c].pc \in {"idle", "ret"}

\* C14: once a fetch has succeeded, the cached price of each symbol is the
\* price returned by the most recently issued successful fetch, also when
\* refreshes run concurrently: when no refresh is in progress, the entries
\* are those of the refresh that fetched last.
C14_CacheIsLatestFetch ==
    \A c \in Callers :
        (Quiescent /\ rf[c].pc = "ret" /\ rf[c].ret /\ rf[c].newest) =>
            /\ Len(prices_cache.data) = Len(rf[c].data)
            /\ \A i \in 1..Len(rf[c].data) :
                /\ prices_cache.data[i].symbol = rf[c].data[i].symbol
                /\ prices_cache.data[i].price = rf[c].data[i].price

\* C15: in every reachable state the timestamps of each symbol's history
\* are non-decreasing in insertion order, also when refreshes are invoked
\* concurrently.
C15_HistoryTimeOrdered ==
    \A s \in SYMBOLS :
        \A i, j \in 1..Len(price_history[s]) :
            i < j => price_history[s][i][1] <= price_history[s][j][1]

\* A step of the thread that serves /predict: of the handler itself or of
\* the refresh it has called.
PredictStep ==
    \/ pr'.pc # pr.pc
    \/ pr'.k # pr.k
    \/ rf'["predict"].pc # rf["predict"].pc
    \/ rf'["predict"].i # rf["predict"].i

\* C16: serving /predict is read-only: handling a query, also in a state
\* where the entries are empty, leaves the cache, every history, the
\* previous-price map and the cooldown map unchanged.
C16_QueryReadOnly ==
    [][ PredictStep =>
            /\ prices_cache' = prices_cache
            /\ price_history' = price_history
            /\ last_prices' = last_prices
            /\ last_triggered_at' = last_triggered_at
      ]_vars

\* C17: an evaluation cycle invokes a refresh if and only if the entries are
\* empty when the cycle starts, and only then (so at most once); with
\* non-empty entries the cycle leaves the cache and every history
\* unchanged, even if the cache is stale.
C17_RefreshOnlyOnEmpty ==
    [][ /\ (ev.pc = "idle" /\ ev'.pc # "idle") =>
            IF prices_cache.data = <<>>
            THEN ev'.pc = "refresh" /\ rf'["eval"].pc = "fetch"
            ELSE ev'.pc = "load" /\ rf'["eval"].pc = "idle"
        /\ (rf["eval"].pc = "idle" /\ rf'["eval"].pc # "idle") => ev.pc = "idle"
        /\ (ev.pc = "refresh" /\ ev'.pc # "refresh") => ev'.pc = "load"
        /\ (ev.pc \notin {"idle", "refresh"}) => ev'.pc # "refresh"
        /\ (ev' # ev /\ rf["eval"].pc = "idle" /\ rf'["eval"].pc = "idle") =>
            /\ prices_cache' = prices_cache
            /\ price_history' = price_history
      ]_vars

\* C17 witness: a cycle has started on entries that are non-empty and stale,
\* without a refresh.
C17_Witness ==
    /\ ev.pc = "load"
    /\ prices_cache.data # <<>>
    /\ prices_cache.stale
    /\ rf["eval"].pc = "idle"

\* C18: the cooldown is per rule: a rule that hits is suppressed only by a
\* fire of that same rule within the last 30 minutes, never by the fire of
\* a rule that differs in owner, symbol, direction or threshold.
C18_CooldownPerRule ==
    [][ (/\ ev.pc = "rules"
         /\ ev' # ev
         /\ ev'.cur # <<>>
         /\ ev'.cur.hit
         /\ ev'.pc # "stamp")
            => /\ Has(firedAt, CurRule)
               /\ clock - firedAt[CurRule] < 30 * 60
      ]_vars

\* C19: every stored rule has a strictly positive percent threshold.
C19_PositiveThreshold ==
    \A i \in 1..Len(alerts) : alerts[i].percent > 0

\* C20: an OTP expires 10 minutes after it was issued: a /verify-otp call
\* made more than 10 minutes after the issue of the OTP it carries never
\* returns authenticated = true.
C20_OtpExpires ==
    (auth # <<>> /\ auth.authenticated) => auth.at - auth.issued <= 10 * 60

====
